---------------------------- MODULE Spec2Model ----------------------------
(***************************************************************************)
(* Model of the marketing dashboard's data preparation:                   *)
(*   src/utils/data_prep.py  fetch_data_from_url, clean_business_data,     *)
(*                           clean_marketing_data, combine_marketing_data, *)
(*                           create_unified_dataset                        *)
(*   src/app.py              load_and_clean_data, main                     *)
(*                                                                         *)
(* A table (DataFrame) is a record [kind |-> "frame", columns, rows]: the  *)
(* set of column names and the sequence of rows, a row being a function    *)
(* from the column names to cells.  A call that raises yields              *)
(* [kind |-> "raised", exc], so that a KeyError on an absent column, a      *)
(* ValueError on an unparseable date or a TypeError on text arithmetic is   *)
(* a value the properties can talk about.                                  *)
(*                                                                         *)
(* A cell is [k, v, s].  Numbers are fixed point, in hundredths            *)
(* (Num(250) is 2.50), so that .round(2) is an integer rounding; NaN and   *)
(* the infinities that a float division by zero produces are cells of      *)
(* their own.                                                              *)
(***************************************************************************)
EXTENDS Integers, Sequences, FiniteSets, TLC

VARIABLES
    business_df,     \* raw business table handed to clean_business_data
    facebook_df,     \* raw ad tables handed to combine_marketing_data
    google_df,
    tiktok_df,
    pc,              \* position of the data_prep run
    business_clean,  \* result of clean_business_data(business_df)
    facebook_clean,  \* locals of combine_marketing_data (lines 106-108)
    google_clean,
    tiktok_clean,
    marketing_df,    \* result of combine_marketing_data
    unify_business,  \* arguments of the create_unified_dataset call
    unify_marketing,
    unified_df,      \* result of create_unified_dataset
    fetched,         \* result of fetch_data_from_url
    app_pc,          \* position inside load_and_clean_data / main (app.py)
    app_i,           \* index of the platform loop of load_and_clean_data
    datasets,        \* the datasets dict being filled
    marketing_dfs,   \* the marketing_dfs list being filled
    app_result,      \* what load_and_clean_data returned
    st_errors,       \* the st.error messages shown so far
    rendered         \* what main computed and rendered from the tables

dpVars == <<business_df, facebook_df, google_df, tiktok_df, pc, business_clean,
            facebook_clean, google_clean, tiktok_clean, marketing_df,
            unify_business, unify_marketing, unified_df, fetched>>
appVars == <<app_pc, app_i, datasets, marketing_dfs, app_result, st_errors, rendered>>
vars == <<dpVars, appVars>>

---------------------------------------------------------------------------
(* Bounds of the model.                                                    *)
MaxAdRows == 2          \* rows over the three raw ad tables together
MaxBusinessRows == 2    \* rows of the raw business table

---------------------------------------------------------------------------
(* Cells.                                                                  *)
Num(h) == [k |-> "num", v |-> h, s |-> ""]      \* the number h/100
Units(n) == Num(n * 100)                        \* the whole number n
NaN == [k |-> "nan", v |-> 0, s |-> ""]         \* missing value
Inf(sign) == [k |-> "inf", v |-> sign, s |-> ""] \* +inf (1) or -inf (-1)
Text(t) == [k |-> "str", v |-> 0, s |-> t]      \* a string cell
Date(d) == [k |-> "date", v |-> d, s |-> ""]    \* a Timestamp, as a day number

(* Tables and raised exceptions.                                           *)
Frame(cols, rs) == [kind |-> "frame", columns |-> cols, rows |-> rs]
Raised(e) == [kind |-> "raised", exc |-> e]
None == [kind |-> "none"]
Unset == [kind |-> "unset"]
IsFrame(x) == x.kind = "frame"
IsRaised(x) == x.kind = "raised"

Range(s) == {s[i] : i \in DOMAIN s}

(* df[col] = value(row), for every row: the column is added or replaced.   *)
WithColumn(df, col, Value(_)) ==
    Frame(df.columns \cup {col},
          [i \in DOMAIN df.rows |->
              [c \in df.columns \cup {col} |->
                  IF c = col THEN Value(df.rows[i]) ELSE df.rows[i][c]]])

---------------------------------------------------------------------------
(* Conversions.                                                            *)

(* pd.to_datetime on one string of the date column.  The strings of the    *)
(* model are two ISO dates and one string that is no date.                 *)
DateStrings == {"2024-01-01", "2024-01-02"}
BadDateString == "not-a-date"
Parseable(c) == c.k = "date" \/ (c.k = "str" /\ c.s \in DateStrings)
to_datetime(c) ==
    IF c.k = "date" THEN c
    ELSE IF c.s = "2024-01-01" THEN Date(1)
    ELSE IF c.s = "2024-01-02" THEN Date(2)
    ELSE NaN

(* pd.to_numeric(errors='coerce') on one cell: text that is no number      *)
(* becomes NaN.                                                            *)
to_numeric(c) == IF c.k = "str" THEN NaN ELSE c

(* fillna(0) on one cell.                                                  *)
fillna0(c) == IF c.k = "nan" THEN Num(0) ELSE c

(* columns.str.replace('#', 'num').str.replace(' ', '_') on one name.      *)
RenameColumn(c) ==
    CASE c = "# of orders" -> "num_of_orders"
      [] c = "total revenue" -> "total_revenue"
      [] c = "gross profit" -> "gross_profit"
      [] c = "new customers" -> "new_customers"
      [] c = "attributed revenue" -> "attributed_revenue"
      [] OTHER -> c

---------------------------------------------------------------------------
(* Arithmetic on numeric cells.                                            *)

(* n/d rounded to the nearest integer, ties to the even one (d > 0).       *)
RoundHalfEvenPos(n, d) ==
    LET q == n \div d
        r == n - q * d
    IN  IF 2 * r < d THEN q
        ELSE IF 2 * r > d THEN q + 1
        ELSE IF q % 2 = 0 THEN q ELSE q + 1

RoundHalfEven(n, d) == IF d > 0 THEN RoundHalfEvenPos(n, d) ELSE RoundHalfEvenPos(-n, -d)

(* (a / b * scale).round(2): float division never raises; x/0 is +-inf and *)
(* 0/0 is NaN, and round keeps them.                                       *)
RoundedRatio(a, b, scale) ==
    IF a.k = "nan" \/ b.k = "nan" THEN NaN
    ELSE IF a.k = "inf" THEN (IF b.k = "inf" THEN NaN ELSE a)
    ELSE IF b.k = "inf" THEN Num(0)
    ELSE IF b.v = 0
         THEN (IF a.v = 0 THEN NaN ELSE IF a.v > 0 THEN Inf(1) ELSE Inf(-1))
         ELSE Num(RoundHalfEven(a.v * scale * 100, b.v))

(* series > 0, on one cell: false for NaN.                                 *)
Positive(c) == (c.k = "num" /\ c.v > 0) \/ (c.k = "inf" /\ c.v > 0)

(* np.where(cond, x, 0) on one row.                                        *)
Where(cond, x) == IF cond THEN x ELSE Num(0)

(* DataFrame-wide cell map (fillna, to_numeric over some columns).         *)
MapCells(df, Value(_, _)) ==
    Frame(df.columns,
          [i \in DOMAIN df.rows |-> [c \in df.columns |-> Value(c, df.rows[i][c])]])

---------------------------------------------------------------------------
(* src/utils/data_prep.py                                                  *)

AdNumericColumns == {"impression", "clicks", "spend", "attributed revenue"}
BusinessNumericColumns == {"total_revenue", "gross_profit", "COGS"}

(* The four derived ad metrics of one row (lines 72-94): the ratio is      *)
(* computed for every row and np.where keeps it only where the guard holds.*)
(* Faulty variant of ctr_of: the factor 100 left out.                      *)
ctr_of_Fraction(r) == Where(Positive(r["impression"]), RoundedRatio(r["clicks"], r["impression"], 1))
ctr_of(r) == Where(Positive(r["impression"]), RoundedRatio(r["clicks"], r["impression"], 100))
(* Faulty variant of cpc_of: the ratio without its np.where guard.                 *)
cpc_of_Unguarded(r) == RoundedRatio(r["spend"], r["clicks"], 1)
cpc_of(r) == Where(Positive(r["clicks"]), RoundedRatio(r["spend"], r["clicks"], 1))
roas_of(r) == Where(Positive(r["spend"]), RoundedRatio(r["attributed revenue"], r["spend"], 1))
cpm_of(r) == Where(Positive(r["impression"]), RoundedRatio(r["spend"], r["impression"], 1000))

(* Faulty variant of KeepAdRow: the filter written != 0.                           *)
KeepAdRow_NonZero(r) == r["impression"].v # 0

(* The row filter of line 97: cleaned_df['impression'] > 0.                *)
KeepAdRow(r) == Positive(r["impression"])

(* Lines 54-69 of clean_marketing_data: the table the metrics are computed *)
(* on (date parsed, platform tagged, numeric columns coerced, NaN filled). *)
marketing_filled(df, platform_name) ==
    IF "date" \notin df.columns THEN Raised("KeyError")
    ELSE IF \E i \in DOMAIN df.rows : ~Parseable(df.rows[i]["date"]) THEN Raised("ValueError")
    ELSE
      LET dated == WithColumn(df, "date", LAMBDA r : to_datetime(r["date"]))
          tagged == WithColumn(dated, "platform", LAMBDA r : Text(platform_name))
          numeric == MapCells(tagged, LAMBDA c, x : IF c \in AdNumericColumns THEN to_numeric(x) ELSE x)
      IN  MapCells(numeric, LAMBDA c, x : fillna0(x))

clean_marketing_data(df, platform_name) ==
    LET filled == marketing_filled(df, platform_name)
    IN  IF IsRaised(filled) THEN filled
        ELSE IF ~(AdNumericColumns \subseteq filled.columns) THEN Raised("KeyError")
        ELSE
          LET m1 == WithColumn(filled, "ctr", ctr_of)
              m2 == WithColumn(m1, "cpc", cpc_of)
              m3 == WithColumn(m2, "roas", roas_of)
              m4 == WithColumn(m3, "cpm", cpm_of)
          IN  Frame(m4.columns, SelectSeq(m4.rows, KeepAdRow))

(* Lines 41-42: the two derived business columns, with no guard.           *)
profit_margin_of(r) == RoundedRatio(r["gross_profit"], r["total_revenue"], 100)
avg_order_value_of(r) == RoundedRatio(r["total_revenue"], r["num_of_orders"], 1)

(* Faulty variant of drop_duplicates: keep='last'.                                 *)
drop_duplicates_Last(rs) ==
    LET keep == {i \in DOMAIN rs : \A j \in (i + 1)..Len(rs) : rs[j]["date"] # rs[i]["date"]}
        Nth(n) == CHOOSE i \in keep : Cardinality({j \in keep : j < i}) = n - 1
    IN  [n \in 1..Cardinality(keep) |-> rs[Nth(n)]]

(* drop_duplicates(subset=['date']), keep='first: a row stays when no     *)
(* earlier row has its date.                                               *)
drop_duplicates(rs) ==
    LET keep == {i \in DOMAIN rs : \A j \in 1..(i - 1) : rs[j]["date"] # rs[i]["date"]}
        Nth(n) == CHOOSE i \in keep : Cardinality({j \in keep : j < i}) = n - 1
    IN  [n \in 1..Cardinality(keep) |-> rs[Nth(n)]]

clean_business_data(df) ==
    IF "date" \notin df.columns THEN Raised("KeyError")
    ELSE IF \E i \in DOMAIN df.rows : ~Parseable(df.rows[i]["date"]) THEN Raised("ValueError")
    ELSE
      LET dated == WithColumn(df, "date", LAMBDA r : to_datetime(r["date"]))
          newcols == {RenameColumn(c) : c \in dated.columns}
          renamed == Frame(newcols,
                           [i \in DOMAIN dated.rows |->
                               [c \in newcols |->
                                   dated.rows[i][CHOOSE o \in dated.columns : RenameColumn(o) = c]]])
          numeric == MapCells(renamed, LAMBDA c, x : IF c \in BusinessNumericColumns THEN to_numeric(x) ELSE x)
          filled == MapCells(numeric, LAMBDA c, x : fillna0(x))
      IN  IF ~({"gross_profit", "total_revenue", "num_of_orders"} \subseteq filled.columns)
          THEN Raised("KeyError")
          ELSE IF \E i \in DOMAIN filled.rows : filled.rows[i]["num_of_orders"].k = "str"
          THEN Raised("TypeError")
          ELSE
            LET m1 == WithColumn(filled, "profit_margin", profit_margin_of)
                m2 == WithColumn(m1, "avg_order_value", avg_order_value_of)
            IN  Frame(m2.columns, drop_duplicates(m2.rows))

(* pd.concat(frames, ignore_index=True): the rows one table after the      *)
(* other, over the union of the columns, NaN where a table lacks a column. *)
concat(frames) ==
    LET cols == UNION {frames[i].columns : i \in DOMAIN frames}
        Widen(f) == [i \in DOMAIN f.rows |->
                        [c \in cols |-> IF c \in f.columns THEN f.rows[i][c] ELSE NaN]]
        RECURSIVE Join(_)
        Join(k) == IF k = 0 THEN <<>> ELSE Join(k - 1) \o Widen(frames[k])
    IN  Frame(cols, Join(Len(frames)))

(* Faulty variant of SortOutcomes: the sort left out.                              *)
SortOutcomes_Unsorted(rs) == {rs}

(* The orders of rs that an ascending sort by date may return.             *)
(* sort_values('date') is called with the default kind='quicksort', which  *)
(* pandas documents as not stable: among rows of equal date any order may  *)
(* come out.                                                               *)
SortOutcomes(rs) ==
    LET n == Len(rs)
        perms == {f \in [1..n -> 1..n] : \A i, j \in 1..n : i # j => f[i] # f[j]}
    IN  {[i \in 1..n |-> rs[f[i]]] : f \in
            {g \in perms : \A i \in 1..(n - 1) : rs[g[i]]["date"].v <= rs[g[i + 1]]["date"].v}}

(* combine_marketing_data: the possible results, given the three cleaned   *)
(* tables of lines 106-108.  An exception of a clean_marketing_data call   *)
(* leaves the function at that call.                                       *)
combine_outcomes(fb_clean, g_clean, t_clean) ==
    IF IsRaised(fb_clean) THEN {fb_clean}
    ELSE IF IsRaised(g_clean) THEN {g_clean}
    ELSE IF IsRaised(t_clean) THEN {t_clean}
    ELSE LET combined_df == concat(<<fb_clean, g_clean, t_clean>>)
         IN  {Frame(combined_df.columns, rs) : rs \in SortOutcomes(combined_df.rows)}

RECURSIVE SumColumn(_, _)
(* groupby(...).agg('sum') over the rows of one group: NaN is skipped.     *)
SumColumn(rs, col) ==
    IF rs = <<>> THEN 0
    ELSE (IF rs[1][col].k = "num" THEN rs[1][col].v ELSE 0) + SumColumn(Tail(rs), col)

RECURSIVE Ascending(_)
(* The members of a finite set of integers, in ascending order.            *)
Ascending(S) ==
    IF S = {} THEN <<>>
    ELSE LET m == CHOOSE x \in S : \A y \in S : x <= y
         IN  <<m>> \o Ascending(S \ {m})

RECURSIVE Flatten(_)
Flatten(ss) == IF ss = <<>> THEN <<>> ELSE Head(ss) \o Flatten(Tail(ss))

AggColumns == {"spend", "attributed revenue", "clicks", "impression"}

(* Lines 131-141 and 150-154: the guarded daily ratios of one row.         *)
daily_roas_of(r) == Where(Positive(r["spend"]), RoundedRatio(r["attributed revenue"], r["spend"], 1))
daily_ctr_of(r) == Where(Positive(r["impression"]), RoundedRatio(r["clicks"], r["impression"], 100))
marketing_efficiency_of(r) == Where(Positive(r["spend"]), RoundedRatio(r["total_revenue"], r["spend"], 1))

(* Lines 123-128: one row per date of the ad table, the four columns       *)
(* summed, in ascending date order.                                        *)
aggregate_by_date(marketing) ==
    LET days == {marketing.rows[i]["date"].v : i \in DOMAIN marketing.rows}
        Group(d) == SelectSeq(marketing.rows, LAMBDA r : r["date"].v = d)
        order == Ascending(days)
    IN  Frame(AggColumns \cup {"date"},
              [n \in DOMAIN order |->
                  [c \in AggColumns \cup {"date"} |->
                      IF c = "date" THEN Date(order[n])
                      ELSE Num(SumColumn(Group(order[n]), c))]])

(* Faulty variant of merge_outer: how='left'.                                      *)
merge_outer_Left(left, right) ==
    LET cols == left.columns \cup right.columns
        RightOf(d) == SelectSeq(right.rows, LAMBDA r : r["date"].v = d)
    IN  Frame(cols,
              [i \in DOMAIN left.rows |->
                  [c \in cols |->
                      IF c \in left.columns THEN left.rows[i][c]
                      ELSE IF RightOf(left.rows[i]["date"].v) = <<>> THEN NaN
                      ELSE RightOf(left.rows[i]["date"].v)[1][c]]])

(* pd.merge(left, right, on='date', how='outer'): every date of either     *)
(* table, in ascending order; a date of one table only has NaN in the      *)
(* other table's columns.  right has one row per date.                     *)
merge_outer(left, right) ==
    LET cols == left.columns \cup right.columns
        days == {left.rows[i]["date"].v : i \in DOMAIN left.rows}
                    \cup {right.rows[i]["date"].v : i \in DOMAIN right.rows}
        order == Ascending(days)
        LeftOf(d) == SelectSeq(left.rows, LAMBDA r : r["date"].v = d)
        RightOf(d) == SelectSeq(right.rows, LAMBDA r : r["date"].v = d)
        Joined(d, l, r) ==
            [c \in cols |->
                IF c = "date" THEN Date(d)
                ELSE IF c \in left.columns THEN (IF l = <<>> THEN NaN ELSE l[1][c])
                ELSE (IF r = <<>> THEN NaN ELSE r[1][c])]
        RowsOf(d) ==
            IF LeftOf(d) = <<>> THEN <<Joined(d, <<>>, RightOf(d))>>
            ELSE [i \in DOMAIN LeftOf(d) |-> Joined(d, <<LeftOf(d)[i]>>, RightOf(d))]
    IN  Frame(cols, Flatten([n \in DOMAIN order |-> RowsOf(order[n])]))

(* Faulty variant of unified_filled: the fillna(0) of line 147 left out.           *)
unified_filled_Skipped(merged) == merged

(* Line 147: unified_df.fillna(0).                                         *)
unified_filled(merged) == MapCells(merged, LAMBDA c, x : fillna0(x))

create_unified_dataset(business, marketing) ==
    IF ~((AggColumns \cup {"date"}) \subseteq marketing.columns) THEN Raised("KeyError")
    ELSE
      LET daily == aggregate_by_date(marketing)
          d1 == WithColumn(daily, "daily_roas", daily_roas_of)
          daily_marketing == WithColumn(d1, "daily_ctr", daily_ctr_of)
      IN  IF "date" \notin business.columns THEN Raised("KeyError")
          ELSE
            LET merged == merge_outer(business, daily_marketing)
                filled == unified_filled(merged)
            IN  IF "total_revenue" \notin filled.columns THEN Raised("KeyError")
                ELSE WithColumn(filled, "marketing_efficiency", marketing_efficiency_of)

---------------------------------------------------------------------------
(* The raw tables the runs are given: what pd.read_csv can return for the  *)
(* sources.  A cell of a numeric column is a number, or text that is no    *)
(* number; a date is one of the date strings, or a string that is no date. *)

AdColumns == {"date", "impression", "clicks", "spend", "attributed revenue"}
BusinessColumns == {"date", "total revenue", "gross profit", "COGS", "# of orders", "new customers"}

AdRow(d, i, c, s, a) ==
    ("date" :> Text(d)) @@ ("impression" :> i) @@ ("clicks" :> c) @@ ("spend" :> s)
        @@ ("attributed revenue" :> a)

BusinessRow(d, t, g, n) ==
    ("date" :> Text(d)) @@ ("total revenue" :> t) @@ ("gross profit" :> g)
        @@ ("COGS" :> Units(600)) @@ ("# of orders" :> n) @@ ("new customers" :> Units(5))

(* On the first date every combination of a zero or positive impression,  *)
(* clicks and spend; on the second date positive clicks and spend with a   *)
(* zero or positive impression.                                            *)
CoreAdRows ==
    {AdRow("2024-01-01", i, c, s, Units(150)) :
        i \in {Units(0), Units(2000)},
        c \in {Units(0), Units(40)},
        s \in {Units(0), Units(100)}}
    \cup {AdRow("2024-01-02", i, Units(40), Units(100), Units(150)) :
            i \in {Units(0), Units(2000)}}

(* Rows with a cell the cleaning has to convert: a non-numeric or empty    *)
(* impression, a negative impression, an empty attributed revenue, a date  *)
(* that is no date; and a row whose ratios do not end after two decimals.  *)
SpecialAdRows ==
    {AdRow("2024-01-01", Text("unknown"), Units(40), Units(100), Units(150)),
     AdRow("2024-01-02", NaN, Units(40), Units(0), NaN),
     AdRow("2024-01-02", Units(-5), Units(40), Units(100), Units(150)),
     AdRow(BadDateString, Units(2000), Units(40), Units(100), Units(150)),
     AdRow("2024-01-02", Units(7000), Units(110), Units(90), Units(200))}

AdRows == CoreAdRows \cup SpecialAdRows

BusinessRows ==
    {BusinessRow(d, t, g, n) :
        d \in DateStrings,
        t \in {Units(0), Units(1000), Text("unknown")},
        g \in {Units(0), Units(400)},
        n \in {Units(0), Units(10), NaN}}
    \cup {BusinessRow(BadDateString, Units(1000), Units(400), Units(10)),
          BusinessRow("2024-01-01", Units(1000), Units(400), Text("ten"))}

SeqsUpTo(S, n) == UNION {[1..k -> S] : k \in 0..n}

(* The table with the columns cols only.                                   *)
Project(df, cols) ==
    Frame(cols, [i \in DOMAIN df.rows |-> [c \in cols |-> df.rows[i][c]]])

(* The section 8 scenario of the specification.                            *)
ScenarioBusiness ==
    Frame(BusinessColumns, <<BusinessRow("2024-01-01", Units(1000), Units(400), Units(10))>>)
ScenarioAds ==
    Frame(AdColumns, <<AdRow("2024-01-01", Units(2000), Units(40), Units(100), Units(150))>>)
EmptyAds == Frame(AdColumns, <<>>)

(* Ad study: any three ad tables of at most MaxAdRows rows together,       *)
(* beside the scenario's business table.                                   *)
InitAdStudy ==
    /\ business_df = ScenarioBusiness
    /\ facebook_df \in {Frame(AdColumns, rs) : rs \in SeqsUpTo(AdRows, MaxAdRows)}
    /\ google_df \in {Frame(AdColumns, rs) : rs \in SeqsUpTo(AdRows, MaxAdRows - Len(facebook_df.rows))}
    /\ tiktok_df \in {Frame(AdColumns, rs) :
            rs \in SeqsUpTo(AdRows, MaxAdRows - Len(facebook_df.rows) - Len(google_df.rows))}

(* Business study: any business table of at most MaxBusinessRows rows,     *)
(* beside the scenario's ad table.                                         *)
InitBusinessStudy ==
    /\ business_df \in {Frame(BusinessColumns, rs) : rs \in SeqsUpTo(BusinessRows, MaxBusinessRows)}
    /\ facebook_df = ScenarioAds
    /\ google_df = EmptyAds
    /\ tiktok_df = EmptyAds

(* Schema drift: one source lacks one of its columns.                      *)
InitSchemaDrift ==
    \/ /\ business_df \in {Project(ScenarioBusiness, BusinessColumns \ {c}) : c \in BusinessColumns}
       /\ facebook_df = ScenarioAds
       /\ google_df = EmptyAds
       /\ tiktok_df = EmptyAds
    \/ /\ business_df = ScenarioBusiness
       /\ \E c \in AdColumns :
            \E who \in {"Facebook", "Google", "TikTok"} :
               /\ facebook_df = IF who = "Facebook" THEN Project(ScenarioAds, AdColumns \ {c}) ELSE ScenarioAds
               /\ google_df = IF who = "Google" THEN Project(ScenarioAds, AdColumns \ {c}) ELSE EmptyAds
               /\ tiktok_df = IF who = "TikTok" THEN Project(ScenarioAds, AdColumns \ {c}) ELSE EmptyAds

---------------------------------------------------------------------------
(* src/app.py, load_and_clean_data                                         *)

(* str.title() on the platform keys of line 89.                            *)
Title(platform) ==
    CASE platform = "facebook" -> "Facebook"
      [] platform = "google" -> "Google"
      [] platform = "tiktok" -> "Tiktok"

AppBusinessNumericColumns == {"total revenue", "gross profit", "COGS"}

(* Lines 74-84: the business table as load_and_clean_data stores it.       *)
app_business_frame(df) ==
    IF "date" \notin df.columns THEN Raised("KeyError")
    ELSE IF \E i \in DOMAIN df.rows : ~Parseable(df.rows[i]["date"]) THEN Raised("ValueError")
    ELSE
      LET dated == WithColumn(df, "date", LAMBDA r : to_datetime(r["date"]))
          numeric == MapCells(dated, LAMBDA c, x : IF c \in AppBusinessNumericColumns THEN to_numeric(x) ELSE x)
          newcols == {RenameColumn(c) : c \in numeric.columns}
      IN  Frame(newcols,
                [i \in DOMAIN numeric.rows |->
                    [c \in newcols |->
                        numeric.rows[i][CHOOSE o \in numeric.columns : RenameColumn(o) = c]]])

(* Lines 101-104: the derived metrics of one row, with no guard.           *)
app_ctr_of(r) == RoundedRatio(r["clicks"], r["impression"], 100)
app_cpc_of(r) == RoundedRatio(r["spend"], r["clicks"], 1)
app_roas_of(r) == RoundedRatio(r["attributed revenue"], r["spend"], 1)
app_cpm_of(r) == RoundedRatio(r["spend"], r["impression"], 1000)

(* Lines 91-104: one platform's table as load_and_clean_data stores it.    *)
app_platform_frame(df, platform) ==
    IF "date" \notin df.columns THEN Raised("KeyError")
    ELSE IF \E i \in DOMAIN df.rows : ~Parseable(df.rows[i]["date"]) THEN Raised("ValueError")
    ELSE
      LET dated == WithColumn(df, "date", LAMBDA r : to_datetime(r["date"]))
          tagged == WithColumn(dated, "platform", LAMBDA r : Text(Title(platform)))
          numeric == MapCells(tagged, LAMBDA c, x : IF c \in AdNumericColumns THEN to_numeric(x) ELSE x)
      IN  IF ~(AdNumericColumns \subseteq numeric.columns) THEN Raised("KeyError")
          ELSE
            LET m1 == WithColumn(numeric, "ctr", app_ctr_of)
                m2 == WithColumn(m1, "cpc", app_cpc_of)
                m3 == WithColumn(m2, "roas", app_roas_of)
            IN  WithColumn(m3, "cpm", app_cpm_of)

(* Lines 87-111 on three tables that were read: marketing_combined, or the *)
(* exception of the first platform that raises.                            *)
app_marketing_combined(fb, g, t) ==
    LET f1 == app_platform_frame(fb, "facebook")
        f2 == app_platform_frame(g, "google")
        f3 == app_platform_frame(t, "tiktok")
    IN  IF IsRaised(f1) THEN f1
        ELSE IF IsRaised(f2) THEN f2
        ELSE IF IsRaised(f3) THEN f3
        ELSE concat(<<f1, f2, f3>>)

---------------------------------------------------------------------------
(* The data_prep run: clean_business_data, combine_marketing_data and      *)
(* create_unified_dataset called in turn on the raw tables.                *)

AppIdle ==
    /\ app_pc = "idle"
    /\ app_i = 0
    /\ datasets = <<>>
    /\ marketing_dfs = <<>>
    /\ app_result = Unset
    /\ st_errors = <<>>
    /\ rendered = Unset
    /\ fetched = Unset

Init ==
    /\ InitAdStudy \/ InitBusinessStudy \/ InitSchemaDrift
    /\ pc = "clean_business"
    /\ business_clean = Unset
    /\ facebook_clean = Unset
    /\ google_clean = Unset
    /\ tiktok_clean = Unset
    /\ marketing_df = Unset
    /\ unify_business = Unset
    /\ unify_marketing = Unset
    /\ unified_df = Unset
    /\ AppIdle

CleanBusiness ==
    /\ pc = "clean_business"
    /\ business_clean' = clean_business_data(business_df)
    /\ pc' = "combine_marketing"
    /\ UNCHANGED <<business_df, facebook_df, google_df, tiktok_df, facebook_clean,
                   google_clean, tiktok_clean, marketing_df, unify_business,
                   unify_marketing, unified_df, fetched, appVars>>

(* combine_marketing_data(facebook_df, google_df, tiktok_df): the three    *)
(* clean_marketing_data calls, the concat and the sort.                    *)
CombineMarketing ==
    /\ pc = "combine_marketing"
    /\ LET f == clean_marketing_data(facebook_df, "Facebook")
           g == IF IsRaised(f) THEN Unset ELSE clean_marketing_data(google_df, "Google")
           t == IF IsRaised(f) \/ IsRaised(g) THEN Unset ELSE clean_marketing_data(tiktok_df, "TikTok")
       IN  /\ facebook_clean' = f
           /\ google_clean' = g
           /\ tiktok_clean' = t
           /\ marketing_df' \in combine_outcomes(f, g, t)
    /\ pc' = "create_unified"
    /\ UNCHANGED <<business_df, facebook_df, google_df, tiktok_df, business_clean,
                   unify_business, unify_marketing, unified_df, fetched, appVars>>

(* The ad tables of this repository that create_unified_dataset can be     *)
(* given: the combined table of combine_marketing_data, and the            *)
(* marketing_combined table that load_and_clean_data builds from the same  *)
(* sources (no fillna, no row filter).                                     *)
MarketingArguments ==
    {m \in {marketing_df, app_marketing_combined(facebook_df, google_df, tiktok_df)} : IsFrame(m)}

CreateUnified ==
    /\ pc = "create_unified"
    /\ IsFrame(business_clean)
    /\ \E m \in MarketingArguments :
        /\ unify_business' = business_clean
        /\ unify_marketing' = m
        /\ unified_df' = create_unified_dataset(business_clean, m)
    /\ pc' = "done"
    /\ UNCHANGED <<business_df, facebook_df, google_df, tiktok_df, business_clean,
                   facebook_clean, google_clean, tiktok_clean, marketing_df, fetched, appVars>>

Next == CleanBusiness \/ CombineMarketing \/ CreateUnified

Spec == Init /\ [][Next]_vars

---------------------------------------------------------------------------
(* The dashboard run of src/app.py: load_and_clean_data, then main.  The   *)
(* raw tables are what the four URLs serve; each read may fail.            *)

PlatformKeys == <<"facebook", "google", "tiktok">>

Served(key) ==
    CASE key = "business" -> business_df
      [] key = "facebook" -> facebook_df
      [] key = "google" -> google_df
      [] key = "tiktok" -> tiktok_df

(* pd.read_csv(url): the served table, or an exception.                    *)
read_csv(key, outcome) == IF outcome = "ok" THEN Served(key) ELSE Raised(outcome)
ReadOutcomes == {"ok", "HTTPError", "ParserError"}

(* Faulty variant of LoadFailed: the except branch returns what was loaded so far. *)
LoadFailed_Partial ==
    /\ st_errors' = Append(st_errors, "Error loading data")
    /\ app_result' = [kind |-> "datasets", tables |-> datasets]
    /\ app_pc' = "main"
    /\ UNCHANGED <<app_i, datasets, marketing_dfs, rendered>>

(* Lines 115-117: the except branch of load_and_clean_data.                *)
LoadFailed ==
    /\ st_errors' = Append(st_errors, "Error loading data")
    /\ app_result' = None
    /\ app_pc' = "main"
    /\ UNCHANGED <<app_i, datasets, marketing_dfs, rendered>>

(* Lines 72-84.                                                            *)
LoadBusiness ==
    /\ app_pc = "load_business"
    /\ \E outcome \in ReadOutcomes :
        LET raw == read_csv("business", outcome)
            df == IF IsRaised(raw) THEN raw ELSE app_business_frame(raw)
        IN  IF IsRaised(df) THEN LoadFailed
            ELSE /\ datasets' = ("business" :> df)
                 /\ app_i' = 1
                 /\ app_pc' = "load_platform"
                 /\ UNCHANGED <<marketing_dfs, app_result, st_errors, rendered>>
    /\ UNCHANGED dpVars

(* Lines 89-107: one iteration of the platform loop.                       *)
LoadPlatform ==
    /\ app_pc = "load_platform"
    /\ \E outcome \in ReadOutcomes :
        LET platform == PlatformKeys[app_i]
            raw == read_csv(platform, outcome)
            df == IF IsRaised(raw) THEN raw ELSE app_platform_frame(raw, platform)
        IN  IF IsRaised(df) THEN LoadFailed
            ELSE /\ marketing_dfs' = Append(marketing_dfs, df)
                 /\ datasets' = datasets @@ (platform :> df)
                 /\ app_i' = app_i + 1
                 /\ app_pc' = IF app_i = Len(PlatformKeys) THEN "combine" ELSE "load_platform"
                 /\ UNCHANGED <<app_result, st_errors, rendered>>
    /\ UNCHANGED dpVars

(* Lines 109-113.                                                          *)
ReturnDatasets ==
    /\ app_pc = "combine"
    /\ datasets' = datasets @@ ("marketing_combined" :> concat(marketing_dfs))
    /\ app_result' = [kind |-> "datasets", tables |-> datasets']
    /\ app_pc' = "main"
    /\ UNCHANGED <<app_i, marketing_dfs, st_errors, rendered>>
    /\ UNCHANGED dpVars

(* main, lines 156-165: stop on None, else take the two tables everything  *)
(* below is computed and drawn from.                                       *)
Main ==
    /\ app_pc = "main"
    /\ IF app_result = None
       THEN /\ st_errors' = Append(st_errors, "Failed to load data")
            /\ app_pc' = "stopped"
            /\ UNCHANGED rendered
       ELSE /\ rendered' = [business_df |-> app_result.tables["business"],
                            marketing_df |-> app_result.tables["marketing_combined"]]
            /\ app_pc' = "rendered"
            /\ UNCHANGED st_errors
    /\ UNCHANGED <<app_i, datasets, marketing_dfs, app_result>>
    /\ UNCHANGED dpVars

(* data_prep.py lines 6-16: requests.get, raise_for_status, pd.read_csv;   *)
(* any exception is printed and None is returned.                          *)
fetch_data_from_url(served, get, status, read) ==
    IF get # "ok" THEN None
    ELSE IF status >= 400 THEN None
    ELSE IF read # "ok" THEN None
    ELSE served

FetchData ==
    /\ app_pc = "load_business"
    /\ \E key \in {"business", "facebook", "google", "tiktok"} :
        \E get \in {"ok", "ConnectionError"} :
          \E status \in {200, 404, 500} :
            \E read \in ReadOutcomes :
               fetched' = fetch_data_from_url(Served(key), get, status, read)
    /\ app_pc' = "fetched"
    /\ UNCHANGED <<business_df, facebook_df, google_df, tiktok_df, pc, business_clean,
                   facebook_clean, google_clean, tiktok_clean, marketing_df,
                   unify_business, unify_marketing, unified_df>>
    /\ UNCHANGED <<app_i, datasets, marketing_dfs, app_result, st_errors, rendered>>

InitApp ==
    /\ InitAdStudy \/ InitBusinessStudy \/ InitSchemaDrift
    /\ pc = "idle"
    /\ business_clean = Unset
    /\ facebook_clean = Unset
    /\ google_clean = Unset
    /\ tiktok_clean = Unset
    /\ marketing_df = Unset
    /\ unify_business = Unset
    /\ unify_marketing = Unset
    /\ unified_df = Unset
    /\ fetched = Unset
    /\ app_pc = "load_business"
    /\ app_i = 0
    /\ datasets = <<>>
    /\ marketing_dfs = <<>>
    /\ app_result = Unset
    /\ st_errors = <<>>
    /\ rendered = Unset

NextApp == LoadBusiness \/ LoadPlatform \/ ReturnDatasets \/ Main \/ FetchData

SpecApp == InitApp /\ [][NextApp]_vars

---------------------------------------------------------------------------
(* Properties.                                                             *)

Zero == Num(0)
CleanCalls ==
    {<<facebook_df, facebook_clean, "Facebook">>, <<google_df, google_clean, "Google">>,
     <<tiktok_df, tiktok_clean, "TikTok">>}
RowsOf(df) == {df.rows[i] : i \in DOMAIN df.rows}

(* A raw impression cell that is a number greater than 0.                  *)
RawPositive(c) == c.k = "num" /\ c.v > 0

PositiveImpressionRows(df) == SelectSeq(df.rows, LAMBDA r : RawPositive(r["impression"]))

(* C1: the table clean_marketing_data returns holds exactly the input rows *)
(* whose impression is a number > 0, in their order: no row with           *)
(* impression <= 0 (or no numeric impression) is in it, whatever its other *)
(* fields, and every row with impression > 0 is.  No row of the table      *)
(* combine_marketing_data returns has impression <= 0 either, and it has   *)
(* as many rows as the three inputs have rows with impression > 0.         *)
C1_NoZeroImpression ==
    /\ \A call \in CleanCalls :
          IsFrame(call[2]) =>
             LET kept == PositiveImpressionRows(call[1])
             IN  /\ \A r \in RowsOf(call[2]) : r["impression"].k = "num" /\ r["impression"].v > 0
                 /\ Len(call[2].rows) = Len(kept)
                 /\ \A i \in DOMAIN kept :
                       \A c \in {"impression", "clicks", "spend"} :
                           call[2].rows[i][c] = kept[i][c]
    /\ IsFrame(marketing_df) =>
          /\ \A r \in RowsOf(marketing_df) : r["impression"].k = "num" /\ r["impression"].v > 0
          /\ Len(marketing_df.rows) =
                Len(PositiveImpressionRows(facebook_df)) + Len(PositiveImpressionRows(google_df))
                    + Len(PositiveImpressionRows(tiktok_df))

(* C1 witness: clean_marketing_data was given a row with impression 0 and  *)
(* positive clicks and spend, and a row with impression > 0, and returned  *)
(* the second alone; the combined table was built.                         *)
C1_Witness ==
    /\ IsFrame(facebook_clean)
    /\ IsFrame(marketing_df)
    /\ Len(facebook_df.rows) = 2
    /\ facebook_df.rows[1]["impression"] = Units(0)
    /\ facebook_df.rows[1]["clicks"] = Units(40)
    /\ facebook_df.rows[1]["spend"] = Units(100)
    /\ facebook_df.rows[2]["impression"] = Units(2000)
    /\ Len(facebook_clean.rows) = 1
    /\ Len(marketing_df.rows) = 1

AdRatioColumns == {"ctr", "cpc", "roas", "cpm"}
GuardedAdRow(r) ==
    /\ \A c \in AdRatioColumns : r[c].k = "num"
    /\ r["clicks"] = Zero => r["cpc"] = Zero
    /\ r["spend"] = Zero => r["roas"] = Zero
    /\ r["impression"] = Zero => (r["ctr"] = Zero /\ r["cpm"] = Zero)

(* C2: every ad-side ratio whose denominator is 0 is 0, and no ratio is    *)
(* NaN or infinite: cpc when clicks = 0, roas when spend = 0, ctr and cpm  *)
(* when impression = 0 (also for the rows the metrics are computed on and  *)
(* that the impression filter then drops), in the cleaned and the combined *)
(* table; daily_roas and marketing_efficiency when the unified row's spend *)
(* is 0, daily_ctr when its impression is 0.                               *)
C2_ZeroGuards ==
    /\ \A call \in CleanCalls :
          IsFrame(call[2]) =>
             /\ \A r \in RowsOf(call[2]) : GuardedAdRow(r)
             /\ \A r \in RowsOf(marketing_filled(call[1], call[3])) :
                   r["impression"] = Zero => (ctr_of(r) = Zero /\ cpm_of(r) = Zero)
    /\ IsFrame(marketing_df) => \A r \in RowsOf(marketing_df) : GuardedAdRow(r)
    /\ IsFrame(unified_df) =>
          \A r \in RowsOf(unified_df) :
             /\ \A c \in {"daily_roas", "daily_ctr", "marketing_efficiency"} : r[c].k = "num"
             /\ r["spend"] = Zero => (r["daily_roas"] = Zero /\ r["marketing_efficiency"] = Zero)
             /\ r["impression"] = Zero => r["daily_ctr"] = Zero

(* C2 witness: a cleaned row with clicks = 0 and spend = 0, a raw row with *)
(* impression 0 and a positive spend, a unified row whose summed           *)
(* impression is 0 with clicks > 0, and a unified row with spend 0 and a   *)
(* positive total_revenue.                                                 *)
C2_Witness ==
    /\ IsFrame(facebook_clean)
    /\ IsFrame(unified_df)
    /\ \E r \in RowsOf(facebook_clean) : r["clicks"] = Zero /\ r["spend"] = Zero
    /\ \E r \in RowsOf(facebook_df) : r["impression"] = Zero /\ r["spend"] = Units(100)
    /\ \E r \in RowsOf(unified_df) : r["impression"] = Zero /\ r["clicks"] = Units(40)
    /\ \E r \in RowsOf(unified_df) : r["spend"] = Zero /\ r["total_revenue"] = Units(1000)

(* C3 (as claimed): in every row clean_business_data returns, profit_margin *)
(* is 0 when total_revenue is 0, avg_order_value is 0 when num_of_orders   *)
(* is 0, and neither is NaN or infinite.                                   *)
C3_BusinessZeroGuards ==
    IsFrame(business_clean) =>
       \A r \in RowsOf(business_clean) :
          /\ r["profit_margin"].k = "num"
          /\ r["avg_order_value"].k = "num"
          /\ r["total_revenue"] = Zero => r["profit_margin"] = Zero
          /\ r["num_of_orders"] = Zero => r["avg_order_value"] = Zero

DaysOf(df) == {r["date"].v : r \in RowsOf(df)}

(* C4: the dates of the table create_unified_dataset returns are the dates *)
(* of its business table together with the dates of its ad table.          *)
C4_OuterJoinDates ==
    IsFrame(unified_df) => DaysOf(unified_df) = DaysOf(unify_business) \cup DaysOf(unify_marketing)

(* C4 witness: a unified table with a date of the business table alone and *)
(* a date of the ad table alone.                                           *)
C4_Witness ==
    /\ IsFrame(unified_df)
    /\ DaysOf(unify_business) \ DaysOf(unify_marketing) # {}
    /\ DaysOf(unify_marketing) \ DaysOf(unify_business) # {}

UnifiedAdFields == AggColumns \cup {"daily_roas", "daily_ctr"}

(* C5: no cell of the unified table is missing; on a date of the business  *)
(* table alone the ad fields are 0, on a date of the ad table alone every  *)
(* business field is 0.                                                    *)
C5_NoMissingField ==
    IsFrame(unified_df) =>
       \A r \in RowsOf(unified_df) :
          /\ \A c \in unified_df.columns : r[c].k # "nan"
          /\ r["date"].v \notin DaysOf(unify_marketing) =>
                \A c \in UnifiedAdFields : r[c] = Zero
          /\ r["date"].v \notin DaysOf(unify_business) =>
                \A c \in unify_business.columns \ {"date"} : r[c] = Zero

(* C5 witness: a unified table over all seven business fields with a row   *)
(* of the business table alone (a positive total_revenue) and a row of the *)
(* ad table alone (a positive spend).                                      *)
C5_Witness ==
    /\ IsFrame(unified_df)
    /\ {"total_revenue", "gross_profit", "COGS", "num_of_orders", "new_customers",
        "profit_margin", "avg_order_value"} \subseteq unify_business.columns
    /\ \E r \in RowsOf(unified_df) :
          r["date"].v \notin DaysOf(unify_marketing) /\ r["total_revenue"] = Units(1000)
    /\ \E r \in RowsOf(unified_df) :
          r["date"].v \notin DaysOf(unify_business) /\ r["spend"] = Units(100)

(* The day a raw date string stands for.                                   *)
RawDay(r) == to_datetime(r["date"]).v
(* What cleaning makes of a raw numeric business cell.                     *)
CleanedCell(c) == fillna0(to_numeric(c))

(* C6: the table clean_business_data returns has one row per date, has     *)
(* every date of the input, and the row of a date is the first input row   *)
(* of that date.                                                           *)
C6_OneRowPerDate ==
    IsFrame(business_clean) =>
       /\ \A i, j \in DOMAIN business_clean.rows :
             i # j => business_clean.rows[i]["date"] # business_clean.rows[j]["date"]
       /\ DaysOf(business_clean) = {RawDay(r) : r \in RowsOf(business_df)}
       /\ \A r \in RowsOf(business_clean) :
             LET first == CHOOSE i \in DOMAIN business_df.rows :
                              /\ RawDay(business_df.rows[i]) = r["date"].v
                              /\ \A j \in 1..(i - 1) : RawDay(business_df.rows[j]) # r["date"].v
             IN  /\ r["total_revenue"] = CleanedCell(business_df.rows[first]["total revenue"])
                 /\ r["gross_profit"] = CleanedCell(business_df.rows[first]["gross profit"])
                 /\ r["num_of_orders"] = fillna0(business_df.rows[first]["# of orders"])

(* C6 witness: two input rows of one date that differ, one row returned.   *)
C6_Witness ==
    /\ IsFrame(business_clean)
    /\ Len(business_df.rows) = 2
    /\ business_df.rows[1]["date"] = business_df.rows[2]["date"]
    /\ business_df.rows[1]["total revenue"] # business_df.rows[2]["total revenue"]
    /\ Len(business_clean.rows) = 1

DatasetKeys == {"business", "facebook", "google", "tiktok", "marketing_combined"}
SourcesLoaded == Cardinality(DOMAIN datasets \cap {"business", "facebook", "google", "tiktok"})

(* C7: load_and_clean_data returns all five tables or None, never a part:  *)
(* it returns None exactly when a source failed (fewer than four were      *)
(* loaded when it returned), and then an error was shown and main stops    *)
(* with nothing rendered; main renders only from a complete result.        *)
(* fetch_data_from_url returns a whole served table or None.               *)
C7_NoPartialDataset ==
    /\ app_result # Unset =>
          \/ /\ app_result = None
             /\ SourcesLoaded < 4
             /\ Len(st_errors) >= 1
             /\ rendered = Unset
          \/ /\ app_result.kind = "datasets"
             /\ SourcesLoaded = 4
             /\ DOMAIN app_result.tables = DatasetKeys
             /\ \A key \in DatasetKeys : IsFrame(app_result.tables[key])
             /\ st_errors = <<>>
    /\ SourcesLoaded < 4 => app_result \in {Unset, None}
    /\ app_pc = "stopped" => (app_result = None /\ rendered = Unset /\ Len(st_errors) = 2)
    /\ app_pc = "rendered" => (app_result.kind = "datasets" /\ rendered # Unset)
    /\ rendered # Unset => app_pc = "rendered"
    /\ fetched \in {Unset, None, business_df, facebook_df, google_df, tiktok_df}

(* C7 witness: the business table and two platforms were loaded, the third *)
(* platform failed, None was returned and main stopped.                    *)
C7_Witness ==
    /\ app_pc = "stopped"
    /\ SourcesLoaded = 3
    /\ Len(marketing_dfs) = 2
    /\ app_result = None

ExpectedBusinessColumns == {"total revenue", "gross profit", "# of orders"}

(* C8 (as claimed): given a table that lacks one of the expected columns,  *)
(* clean_business_data and clean_marketing_data still return a table.      *)
C8_AbsentColumnTolerated ==
    /\ (business_clean # Unset /\ "date" \in business_df.columns
            /\ ~(ExpectedBusinessColumns \subseteq business_df.columns))
          => IsFrame(business_clean)
    /\ \A call \in CleanCalls :
          (call[2] # Unset /\ "date" \in call[1].columns
              /\ ~(AdNumericColumns \subseteq call[1].columns))
            => IsFrame(call[2])

ValidDateRows(df) == SelectSeq(df.rows, LAMBDA r : Parseable(r["date"]))

(* C9 (as claimed): given rows with unparseable dates, the cleaning        *)
(* functions return a table made of the rows with valid dates.             *)
C9_BadDateExcluded ==
    /\ (business_clean # Unset /\ BusinessColumns \subseteq business_df.columns
            /\ \A r \in RowsOf(business_df) : r["# of orders"].k # "str")
          => /\ IsFrame(business_clean)
             /\ DaysOf(business_clean) = {RawDay(r) : r \in Range(ValidDateRows(business_df))}
    /\ \A call \in CleanCalls :
          (call[2] # Unset /\ AdColumns \subseteq call[1].columns)
            => /\ IsFrame(call[2])
               /\ Len(call[2].rows) = Len(PositiveImpressionRows(Frame(AdColumns, ValidDateRows(call[1]))))

Count(rs, x) == Cardinality({i \in DOMAIN rs : rs[i] = x})
SameRows(rs, qs) == Len(rs) = Len(qs) /\ \A x \in Range(rs) \cup Range(qs) : Count(rs, x) = Count(qs, x)
Concatenation == facebook_clean.rows \o google_clean.rows \o tiktok_clean.rows

(* The stable ascending sort by date: date after date, the rows of a date  *)
(* in their order in rs.                                                   *)
StableSort(rs) ==
    LET order == Ascending({rs[i]["date"].v : i \in DOMAIN rs})
    IN  Flatten([n \in DOMAIN order |-> SelectSeq(rs, LAMBDA r : r["date"].v = order[n])])

(* C10 (as claimed): the combined table is the stable ascending sort by    *)
(* date of the Facebook rows, then the Google rows, then the TikTok rows.  *)
C10_StableSort ==
    IsFrame(marketing_df) => marketing_df.rows = StableSort(Concatenation)

(* C10 (amended): the combined table holds every cleaned row of the three  *)
(* platform tables exactly once, each with the tag of its table, and its   *)
(* dates are non-decreasing.                                               *)
C10_SortedUnion ==
    IsFrame(marketing_df) =>
       /\ SameRows(marketing_df.rows, Concatenation)
       /\ \A call \in CleanCalls :
             /\ \A r \in RowsOf(call[2]) : r["platform"] = Text(call[3])
             /\ SameRows(SelectSeq(marketing_df.rows, LAMBDA r : r["platform"] = Text(call[3])),
                         call[2].rows)
       /\ \A i \in 1..(Len(marketing_df.rows) - 1) :
             marketing_df.rows[i]["date"].v <= marketing_df.rows[i + 1]["date"].v

(* C10 witness: rows of two platforms on two dates, the later date first   *)
(* in the concatenation.                                                   *)
C10_Witness ==
    /\ IsFrame(marketing_df)
    /\ Len(facebook_clean.rows) = 1
    /\ Len(tiktok_clean.rows) = 1
    /\ facebook_clean.rows[1]["date"] = Date(2)
    /\ tiktok_clean.rows[1]["date"] = Date(1)

(* h hundredths is num/den rounded to two decimals: no hundredth is nearer *)
(* to num/den (num and den in hundredths, den > 0), whatever the tie rule. *)
NearestHundredth(h, num, den) ==
    LET diff == h * den - num * 100
    IN  2 * (IF diff < 0 THEN -diff ELSE diff) <= den

(* The spend summed over the ad rows of day d.                             *)
SpendOfDay(df, d) == SumColumn(SelectSeq(df.rows, LAMBDA r : r["date"].v = d), "spend")

(* C11: in every row clean_marketing_data keeps with clicks > 0 and        *)
(* spend > 0, ctr is clicks/impression*100, cpc is spend/clicks, roas is   *)
(* attributed revenue/spend and cpm is spend/impression*1000, each rounded *)
(* to two decimals; in every unified row of a date with ad spend,          *)
(* marketing_efficiency is total_revenue divided by the spend summed over  *)
(* the ad rows of the date, rounded to two decimals.                       *)
C11_ReferenceFormulas ==
    /\ \A call \in CleanCalls :
          IsFrame(call[2]) =>
             \A r \in RowsOf(call[2]) :
                (r["clicks"].v > 0 /\ r["spend"].v > 0) =>
                   /\ \A c \in AdRatioColumns : r[c].k = "num"
                   /\ NearestHundredth(r["ctr"].v, r["clicks"].v * 100, r["impression"].v)
                   /\ NearestHundredth(r["cpc"].v, r["spend"].v, r["clicks"].v)
                   /\ NearestHundredth(r["roas"].v, r["attributed revenue"].v, r["spend"].v)
                   /\ NearestHundredth(r["cpm"].v, r["spend"].v * 1000, r["impression"].v)
    /\ IsFrame(unified_df) =>
          \A r \in RowsOf(unified_df) :
             SpendOfDay(unify_marketing, r["date"].v) > 0 =>
                /\ r["marketing_efficiency"].k = "num"
                /\ r["total_revenue"].k = "num"
                /\ NearestHundredth(r["marketing_efficiency"].v, r["total_revenue"].v,
                                    SpendOfDay(unify_marketing, r["date"].v))

(* C11 witness: the scenario of the specification (ctr 2.0, cpc 2.5,       *)
(* roas 1.5, cpm 50.0, marketing_efficiency 10.0) beside a kept row whose  *)
(* ratios need rounding (ctr 1.57, cpc 0.82, roas 2.22, cpm 12.86).        *)
C11_Witness ==
    /\ IsFrame(unified_df)
    /\ IsFrame(facebook_clean)
    /\ IsFrame(google_clean)
    /\ \E r \in RowsOf(facebook_clean) :
          /\ r["date"] = Date(2)
          /\ r["impression"] = Units(7000) /\ r["clicks"] = Units(110)
          /\ r["spend"] = Units(90) /\ r["attributed revenue"] = Units(200)
          /\ r["ctr"] = Num(157) /\ r["cpc"] = Num(82)
          /\ r["roas"] = Num(222) /\ r["cpm"] = Num(1286)
    /\ \E r \in RowsOf(google_clean) :
          /\ r["date"] = Date(1)
          /\ r["impression"] = Units(2000) /\ r["clicks"] = Units(40)
          /\ r["spend"] = Units(100) /\ r["attributed revenue"] = Units(150)
          /\ r["ctr"] = Num(200) /\ r["cpc"] = Num(250)
          /\ r["roas"] = Num(150) /\ r["cpm"] = Num(5000)
    /\ \E r \in RowsOf(unified_df) :
          /\ r["date"] = Date(1)
          /\ r["total_revenue"] = Units(1000)
          /\ r["spend"] = Units(100)
          /\ r["marketing_efficiency"] = Num(1000)

AppAdKeys == {"facebook", "google", "tiktok", "marketing_combined"}

(* C12 (as claimed): every row of the ad tables load_and_clean_data        *)
(* returns (the three platform tables and marketing_combined) has          *)
(* impression > 0.                                                         *)
C12_AppImpressionPositive ==
    app_result.kind = "datasets" =>
       \A key \in AppAdKeys :
          \A r \in RowsOf(app_result.tables[key]) :
             r["impression"].k = "num" /\ r["impression"].v > 0

===========================================================================
